---- MODULE Spec2Model ----
(***************************************************************************)
(* Model of src/app.py: the colour analysis pipeline of the Streamlit      *)
(* script (analyze_colors, the data_list loop, the two sorts, plot_bar)    *)
(* and its two pure conversions (rgb_to_wavelength,                        *)
(* calculate_photon_energy).                                               *)
(*                                                                         *)
(* Numbers.  The script computes in binary floating point; the model       *)
(* computes the same expressions in exact rational arithmetic:             *)
(*   - a wavelength is an integer count of 1/255 nm (every branch of       *)
(*     rgb_to_wavelength is base + c * (channel / 255));                   *)
(*   - a share and an energy are fractions <<num, den>>;                   *)
(*   - an energy num/den is in units of 255e-5 eV, with                    *)
(*     H_PLANCK, C_LIGHT, EV_PER_JOULE kept as their decimal mantissas.    *)
(***************************************************************************)
EXTENDS Integers, Sequences, FiniteSets, TLC

\* ------------------------------------------------------------ bounds
\* The script analyses resize_val^2 >= 40,000 samples for 3 to 20 clusters;
\* the model scales both down, keeping k <= number of samples.
\* Largest position of the cluster-count slider; the smallest is 1.
MaxK == 3
\* Number of samples of the resized image.
NumSamples == 4

\* ------------------------------------------------- program constants
ChannelMax == 255
H_PLANCK == 6626
C_LIGHT == 3
EV_PER_JOULE == 6242

\* Colours of the analysed images: a red, a blue, a grey and a tie of two
\* channels (both of which rgb_to_wavelength maps to 550 nm).
Palette ==
    << <<255, 0, 0>>, <<0, 0, 255>>, <<120, 120, 120>>, <<200, 200, 10>> >>

\* Channel values of the colours the pure functions are applied to.
Channels == {0, 1, 5, 10, 15, 16, 120, 200, 255}
Colors == { <<r, g, b>> : r \in Channels, g \in Channels, b \in Channels }
\* Second colour of a pair: the ends of every branch, a grey and a tie.
EdgeColors ==
    { <<1, 0, 0>>, <<255, 0, 0>>, <<0, 1, 0>>, <<0, 255, 0>>,
      <<0, 0, 1>>, <<0, 0, 255>>, <<120, 120, 120>>, <<255, 255, 0>> }
\* Wavelengths (in 1/255 nm) calculate_photon_energy is applied to.
Wavelengths ==
    { -500 * 255, -1, 0, 1, 380 * 255, 400 * 255, 500 * 255, 500 * 255 + 1,
      700 * 255, 750 * 255 }

\* ----------------------------------------------------------- helpers
Range(f) == { f[i] : i \in DOMAIN f }

Min2(a, b) == IF a < b THEN a ELSE b

Max2(a, b) == IF a > b THEN a ELSE b

RECURSIVE SumTo(_, _)
SumTo(s, n) == IF n = 0 THEN 0 ELSE s[n] + SumTo(s, n - 1)

\* sum(s), numpy's a.sum()
SumSeq(s) == SumTo(s, Len(s))

\* Sign (-1, 0, 1) of a/b - c/d for a, c >= 0 and b, d > 0, by continued
\* fractions, so that no product leaves the integers TLC computes with.
RECURSIVE RatCmp(_, _, _, _)
RatCmp(a, b, c, d) ==
    LET qa == a \div b
        qc == c \div d
        ra == a % b
        rc == c % d
    IN  IF qa # qc THEN (IF qa > qc THEN 1 ELSE -1)
        ELSE IF ra = 0 /\ rc = 0 THEN 0
        ELSE IF ra = 0 THEN -1
        ELSE IF rc = 0 THEN 1
        ELSE RatCmp(d, rc, b, ra)

\* x >= y on fractions, the comparison the sorts make on their keys; a
\* comparison with nan (0/0) is false.
KeyGE(x, y) ==
    /\ x[2] # 0
    /\ y[2] # 0
    /\ RatCmp(x[1], x[2], y[1], y[2]) >= 0

KeyGT(x, y) ==
    /\ x[2] # 0
    /\ y[2] # 0
    /\ RatCmp(x[1], x[2], y[1], y[2]) > 0

\* ------------------------------------------------- rgb_to_wavelength
rgb_to_wavelength_NoDivide(rgb) ==
    LET r == rgb[1]
        g == rgb[2]
        b == rgb[3]
        wavelength ==
            IF r > g /\ r > b THEN 620 * ChannelMax + 130 * r * ChannelMax
            ELSE IF g > r /\ g > b THEN 495 * ChannelMax + 125 * g * ChannelMax
            ELSE IF b > r /\ b > g THEN 380 * ChannelMax + 115 * b * ChannelMax
            ELSE 550 * ChannelMax
    IN  Max2(380 * ChannelMax, Min2(750 * ChannelMax, wavelength))

rgb_to_wavelength_NonStrict(rgb) ==
    LET r == rgb[1]
        g == rgb[2]
        b == rgb[3]
        wavelength ==
            IF r >= g /\ r >= b THEN 620 * ChannelMax + 130 * r
            ELSE IF g >= r /\ g >= b THEN 495 * ChannelMax + 125 * g
            ELSE IF b >= r /\ b >= g THEN 380 * ChannelMax + 115 * b
            ELSE 550 * ChannelMax
    IN  Max2(380 * ChannelMax, Min2(750 * ChannelMax, wavelength))

\* The wavelength in 1/255 nm: 620 + 130 * (r / 255) is 620 * 255 + 130 * r.
rgb_to_wavelength(rgb) ==
    LET r == rgb[1]
        g == rgb[2]
        b == rgb[3]
        wavelength ==
            IF r > g /\ r > b THEN 620 * ChannelMax + 130 * r
            ELSE IF g > r /\ g > b THEN 495 * ChannelMax + 125 * g
            ELSE IF b > r /\ b > g THEN 380 * ChannelMax + 115 * b
            ELSE 550 * ChannelMax
    IN  Max2(380 * ChannelMax, Min2(750 * ChannelMax, wavelength))

\* ------------------------------------------- calculate_photon_energy
calculate_photon_energy_Multiply(wavelength_nm) ==
    { [error |-> "none",
       value |-> <<wavelength_nm, H_PLANCK * C_LIGHT * EV_PER_JOULE>>] }

\* The outcomes of one call.  Dividing by a zero wavelength raises
\* ZeroDivisionError on a Python number and yields inf (<<1, 0>>), with a
\* warning, on a numpy float: the caller's argument type decides.  Any
\* other wavelength, negative ones included, returns h*c/wavelength.
calculate_photon_energy(wavelength_nm) ==
    LET wavelength_m == wavelength_nm
    IN  IF wavelength_m = 0
        THEN { [error |-> "ZeroDivisionError", value |-> <<0, 1>>],
               [error |-> "none", value |-> <<1, 0>>] }
        ELSE LET energy_joule == <<H_PLANCK * C_LIGHT, wavelength_m>>
             IN  { [error |-> "none",
                    value |-> <<energy_joule[1] * EV_PER_JOULE,
                                energy_joule[2]>>] }

\* The energy the data_list loop stores: its wavelengths are positive.
EnergyOf(wavelength) ==
    (CHOOSE o \in calculate_photon_energy(wavelength) : TRUE).value

\* ------------------------------------------------------ '{:02x}'.format
HexDigits ==
    << "0", "1", "2", "3", "4", "5", "6", "7",
       "8", "9", "a", "b", "c", "d", "e", "f" >>

RECURSIVE FormatX(_)
\* format(n, 'x') for n >= 0: the digits, most significant first.
FormatX(n) ==
    IF n < 16 THEN << HexDigits[n + 1] >>
    ELSE FormatX(n \div 16) \o << HexDigits[(n % 16) + 1] >>

Format02x_NoPad(n) == FormatX(n)

\* format(n, '02x'): zero-padded on the left to a width of at least two.
Format02x(n) ==
    LET d == FormatX(n)
    IN  IF Len(d) < 2 THEN << "0" >> \o d ELSE d

\* '#{:02x}{:02x}{:02x}'.format(*color_int), as a sequence of characters.
HexCode(color_int) ==
    << "#" >> \o Format02x(color_int[1]) \o Format02x(color_int[2])
              \o Format02x(color_int[3])

\* --------------------------------------------- sorted(.., reverse=True)
RECURSIVE SortedReverse_TiesReversed(_, _)
SortedReverse_TiesReversed(s, key) ==
    IF s = <<>> THEN <<>>
    ELSE LET n == Len(s)
             init == SortedReverse_TiesReversed(SubSeq(s, 1, n - 1), key)
             x == s[n]
             p == Cardinality({ i \in 1..Len(init) :
                                  KeyGT(init[i][key], x[key]) })
         IN  SubSeq(init, 1, p) \o << x >> \o SubSeq(init, p + 1, Len(init))

RECURSIVE SortedReverseRec(_, _)
SortedReverseRec(s, key) ==
    IF s = <<>> THEN <<>>
    ELSE LET n == Len(s)
             init == SortedReverseRec(SubSeq(s, 1, n - 1), key)
             x == s[n]
             p == Cardinality({ i \in 1..Len(init) :
                                  KeyGE(init[i][key], x[key]) })
         IN  SubSeq(init, 1, p) \o << x >> \o SubSeq(init, p + 1, Len(init))

\* sorted(s, key=lambda x: x[key], reverse=True): Python's sort is stable
\* and reverse=True keeps the original order of elements with equal keys,
\* so each element goes after every element whose key is >= its own.
SortedReverse(s, key) == SortedReverseRec(s, key)

\* ------------------------------------------------------------- numpy
\* np.arange(lo, hi)
NpArange(lo, hi) == [i \in 1..(hi - lo) |-> lo + i - 1]

\* np.unique(a), as the set of its values
NpUnique(a) == Range(a)

\* np.histogram(a, bins=edges)[0]: bin j counts edges[j] <= x < edges[j+1],
\* the last bin also takes x = edges[last]; values outside the edges are
\* not counted.
NpHistogram(a, edges) ==
    [j \in 1..(Len(edges) - 1) |->
        Cardinality({ i \in DOMAIN a :
            /\ edges[j] <= a[i]
            /\ IF j = Len(edges) - 1
               THEN a[i] <= edges[j + 1]
               ELSE a[i] < edges[j + 1] })]

\* zip(a, b): as long as the shorter of the two
Zip(a, b) == [i \in 1..Min2(Len(a), Len(b)) |-> << a[i], b[i] >>]

\* ------------------------------------------- KMeans(n_clusters=k).fit
\* sklearn's KMeans is a library; the model keeps its contract.  labels_
\* gives every sample a label in 0..k-1 (the index of its nearest centre);
\* equal samples have the same nearest centre, so at most as many labels
\* are used as there are distinct samples, and with fewer distinct samples
\* than k some labels are unused (sklearn warns and returns).  With at
\* least k distinct samples every cluster is non-empty (empty clusters are
\* relocated).  cluster_centers_ always has k rows: the mean of the
\* samples of a used label, and for an unused label a duplicate of some
\* sample.  A centre is kept exactly, as [sum, n] for the mean sum / n.
Distinct(samples) == Cardinality(Range(samples))

Labelings(samples, k) ==
    { lab \in [1..Len(samples) -> 0..(k - 1)] :
        /\ \A i, j \in 1..Len(samples) :
               samples[i] = samples[j] => lab[i] = lab[j]
        /\ Distinct(samples) >= k => Range(lab) = 0..(k - 1) }

Members(lab, c) == { i \in DOMAIN lab : lab[i] = c }

MeanOf(samples, lab, c) ==
    [sum |-> [ch \in 1..3 |->
                 SumSeq([i \in 1..Len(samples) |->
                            IF lab[i] = c THEN samples[i][ch] ELSE 0])],
     n |-> Cardinality(Members(lab, c))]

CenterChoices(samples, lab, c) ==
    IF Members(lab, c) # {}
    THEN { MeanOf(samples, lab, c) }
    ELSE { [sum |-> col, n |-> 1] : col \in Range(samples) }

RECURSIVE CentersUpTo(_, _, _)
CentersUpTo(samples, lab, k) ==
    IF k = 0 THEN { <<>> }
    ELSE { Append(cs, x) : cs \in CentersUpTo(samples, lab, k - 1),
                           x \in CenterChoices(samples, lab, k - 1) }

KMeansResults(samples, k) ==
    UNION { { [labels_ |-> lab, cluster_centers_ |-> cen] :
                cen \in CentersUpTo(samples, lab, k) } :
            lab \in Labelings(samples, k) }

KMeansFit_Unseeded(samples, k, memo) == KMeansResults(samples, k)

\* KMeans(n_clusters=k, n_init=10, random_state=42).fit(img_array): with
\* the seed fixed the result is a function of (img_array, k).  memo holds
\* the result already returned for this very input, if any: a second fit
\* of the same input returns it again.
KMeansFit(samples, k, memo) ==
    IF memo # <<>> THEN { memo[1] } ELSE KMeansResults(samples, k)

\* ---------------------------------------------------- analyze_colors
analyze_colors_NoPlusOne(clt) ==
    LET numLabels == NpArange(0, Cardinality(NpUnique(clt.labels_)))
        counts == NpHistogram(clt.labels_, numLabels)
        total == SumSeq(counts)
    IN  << [j \in DOMAIN counts |-> << counts[j], total >>],
           clt.cluster_centers_ >>

\* Lines 61-66 on a fitted clt: (hist, clt.cluster_centers_), each share
\* being the fraction count / hist.sum() (0/0, numpy's nan, if no label
\* falls inside the bins).
analyze_colors(clt) ==
    LET numLabels == NpArange(0, Cardinality(NpUnique(clt.labels_)) + 1)
        counts == NpHistogram(clt.labels_, numLabels)
        total == SumSeq(counts)
    IN  << [j \in DOMAIN counts |-> << counts[j], total >>],
           clt.cluster_centers_ >>

\* ----------------------------------------------- data_list, plot_bar
\* color.astype(int): truncation of each (non-negative) channel mean
AstypeInt(color) ==
    << color.sum[1] \div color.n, color.sum[2] \div color.n,
       color.sum[3] \div color.n >>

\* One iteration of the loop of lines 111-122.
ColorRecord(percent, color) ==
    LET color_int == AstypeInt(color)
        wavelength == rgb_to_wavelength(color_int)
        energy == EnergyOf(wavelength)
    IN  [percent |-> percent, color |-> color_int, wavelength |-> wavelength,
         energy |-> energy, hex |-> HexCode(color_int)]

BuildDataList(h, c) ==
    LET z == Zip(h, c)
    IN  [i \in DOMAIN z |-> ColorRecord(z[i][1], z[i][2])]

\* zipped of plot_bar: the (share, centre) pairs by share, largest first
plot_bar(h, c) == SortedReverse(Zip(h, c), 1)

\* ------------------------------------------------------------- state
VARIABLES
    uploaded_file,  \* img_array of the uploaded image, <<>> if none
    k_value,        \* the slider
    sort_option,    \* the radio: "percent" or "energy"
    pc,             \* where the script's run is
    hist,           \* analyze_colors' first result
    centers,        \* analyze_colors' second result
    data_list,
    sorted_data,
    zipped,         \* plot_bar's order
    fit_memo,       \* history: <<clt>> once this input has been fitted
    prev_run,       \* history: <<data_list>> of the last finished run on
                    \* this same input
    t_pc,           \* function harness: "off", "call", "returned"
    t_in,
    t_out

vars ==
    << uploaded_file, k_value, sort_option, pc, hist, centers, data_list,
       sorted_data, zipped, fit_memo, prev_run, t_pc, t_in, t_out >>

scriptVars ==
    << uploaded_file, k_value, sort_option, pc, hist, centers, data_list,
       sorted_data, zipped, fit_memo, prev_run >>

harnessVars == << t_pc, t_in, t_out >>

\* The sample arrays of the uploaded images, one per multiset of palette
\* colours: the script reads the samples only through the fit, and the
\* histogram of its labels does not depend on their order.
Images ==
    { [i \in 1..NumSamples |-> Palette[f[i]]] :
        f \in { g \in [1..NumSamples -> DOMAIN Palette] :
                  \A i \in 1..(NumSamples - 1) : g[i] <= g[i + 1] } }

KRange == 1..MaxK

SortOptions == {"percent", "energy"}

NoInput == [kind |-> "none", rgb |-> <<>>, wavelength |-> <<>>]

Init ==
    /\ uploaded_file = <<>>
    /\ k_value \in KRange
    /\ sort_option = "percent"
    /\ pc = "idle"
    /\ hist = <<>>
    /\ centers = <<>>
    /\ data_list = <<>>
    /\ sorted_data = <<>>
    /\ zipped = <<>>
    /\ fit_memo = <<>>
    /\ prev_run = <<>>
    /\ t_pc = "off"
    /\ t_in = NoInput
    /\ t_out = <<>>

\* A widget changes and Streamlit runs the script again from its first
\* line, with fresh locals.  (A change during a run abandons that run and
\* leaves nothing of it; the model takes changes between runs only.)
Rerun(file, k, opt) ==
    LET same == file = uploaded_file /\ k = k_value
    IN  /\ pc \in {"idle", "done"}
        /\ uploaded_file' = file
        /\ k_value' = k
        /\ sort_option' = opt
        /\ pc' = IF file = <<>> THEN "idle" ELSE "analyze"
        /\ hist' = <<>>
        /\ centers' = <<>>
        /\ data_list' = <<>>
        /\ sorted_data' = <<>>
        /\ zipped' = <<>>
        /\ fit_memo' = IF same THEN fit_memo ELSE <<>>
        /\ prev_run' = IF ~same THEN <<>>
                       ELSE IF pc = "done" THEN << data_list >>
                       ELSE prev_run
        /\ UNCHANGED harnessVars

Upload == \E img \in Images : Rerun(img, k_value, sort_option)

MoveSlider == \E k \in KRange \ {k_value} : Rerun(uploaded_file, k, sort_option)

SelectSort ==
    \E opt \in SortOptions \ {sort_option} : Rerun(uploaded_file, k_value, opt)

\* line 107
AnalyzeColors ==
    /\ pc = "analyze"
    /\ \E clt \in KMeansFit(uploaded_file, k_value, fit_memo) :
          /\ hist' = analyze_colors(clt)[1]
          /\ centers' = analyze_colors(clt)[2]
          /\ fit_memo' = << clt >>
    /\ pc' = "structure"
    /\ UNCHANGED << uploaded_file, k_value, sort_option, data_list,
                    sorted_data, zipped, prev_run, harnessVars >>

\* lines 110-122
StructureData ==
    /\ pc = "structure"
    /\ data_list' = BuildDataList(hist, centers)
    /\ pc' = "sort"
    /\ UNCHANGED << uploaded_file, k_value, sort_option, hist, centers,
                    sorted_data, zipped, fit_memo, prev_run, harnessVars >>

\* lines 134-139
SortData ==
    /\ pc = "sort"
    /\ sorted_data' = IF sort_option = "energy"
                      THEN SortedReverse(data_list, "energy")
                      ELSE SortedReverse(data_list, "percent")
    /\ pc' = "plot"
    /\ UNCHANGED << uploaded_file, k_value, sort_option, hist, centers,
                    data_list, zipped, fit_memo, prev_run, harnessVars >>

\* line 174
PlotBar ==
    /\ pc = "plot"
    /\ zipped' = plot_bar(hist, centers)
    /\ pc' = "done"
    /\ UNCHANGED << uploaded_file, k_value, sort_option, hist, centers,
                    data_list, sorted_data, fit_memo, prev_run, harnessVars >>

Next ==
    \/ Upload
    \/ MoveSlider
    \/ SelectSort
    \/ AnalyzeColors
    \/ StructureData
    \/ SortData
    \/ PlotBar

Spec == Init /\ [][Next]_vars

\* ------------------------------------- the pure functions, on their own
FnInit ==
    /\ uploaded_file = <<>>
    /\ k_value = 1
    /\ sort_option = "percent"
    /\ pc = "idle"
    /\ hist = <<>>
    /\ centers = <<>>
    /\ data_list = <<>>
    /\ sorted_data = <<>>
    /\ zipped = <<>>
    /\ fit_memo = <<>>
    /\ prev_run = <<>>
    /\ t_pc = "call"
    /\ t_in \in { [kind |-> "color", rgb |-> << x, y >>, wavelength |-> <<>>] :
                    x \in Colors, y \in EdgeColors }
               \cup { [kind |-> "wave", rgb |-> <<>>, wavelength |-> << x, y >>] :
                        x \in Wavelengths, y \in Wavelengths }
    /\ t_out = <<>>

\* Lines 113-121 on two colours, then the energy sort of line 135 on the
\* two records.
CallColor ==
    /\ t_pc = "call"
    /\ t_in.kind = "color"
    /\ LET recs == << ColorRecord(<<1, 2>>, [sum |-> t_in.rgb[1], n |-> 1]),
                      ColorRecord(<<1, 2>>, [sum |-> t_in.rgb[2], n |-> 1]) >>
       IN  t_out' = [data |-> recs, view |-> SortedReverse(recs, "energy")]
    /\ t_pc' = "returned"
    /\ UNCHANGED << scriptVars, t_in >>

\* calculate_photon_energy on two wavelengths.
CallEnergy ==
    /\ t_pc = "call"
    /\ t_in.kind = "wave"
    /\ \E oa \in calculate_photon_energy(t_in.wavelength[1]),
          ob \in calculate_photon_energy(t_in.wavelength[2]) :
          t_out' = [a |-> oa, b |-> ob]
    /\ t_pc' = "returned"
    /\ UNCHANGED << scriptVars, t_in >>

FnNext == CallColor \/ CallEnergy

FnSpec == FnInit /\ [][FnNext]_vars

\* ======================================================== the claims
Analyzed == pc \in {"structure", "sort", "plot", "done"}

\* C1: for a non-empty sample set and K at most its number of distinct
\* colours, analyze_colors returns exactly K shares, one per returned
\* cluster centre, each in [0,1], and the shares sum to 1.
C1_SharesSumToOne ==
    (Analyzed /\ Distinct(uploaded_file) >= k_value) =>
        /\ Len(hist) = k_value
        /\ Len(centers) = k_value
        /\ \A i \in 1..Len(hist) :
              /\ hist[i][2] > 0
              /\ hist[i][2] = hist[1][2]
              /\ 0 <= hist[i][1]
              /\ hist[i][1] <= hist[i][2]
        /\ SumSeq([i \in 1..Len(hist) |-> hist[i][1]]) = hist[1][2]

C1_Witness ==
    /\ pc = "done"
    /\ k_value >= 2
    /\ Distinct(uploaded_file) > k_value
    /\ Len(hist) = k_value
    /\ \E i \in 1..Len(hist) : 0 < hist[i][1] /\ hist[i][1] < hist[i][2]

\* C2: for every labelling the fit can return, unused labels included, the
\* share returned at index i is (number of samples labelled i) / (number
\* of samples), for every label i in 0..k-1.
C2_ShareIsLabelCount ==
    Analyzed =>
        LET lab == fit_memo[1].labels_
        IN  \A c \in 0..(k_value - 1) :
                /\ c + 1 <= Len(hist)
                /\ hist[c + 1][2] > 0
                /\ hist[c + 1][1] * Len(lab)
                       = Cardinality(Members(lab, c)) * hist[c + 1][2]

\* C3: with fewer distinct colours than K, a run that ends without an error
\* never yields fewer than K colour records.  (No step of the script
\* raises or signals anything here: a run that reaches "done" has ended
\* normally and silently.)
C3_NeverFewerRecords ==
    (pc = "done" /\ Distinct(uploaded_file) < k_value) =>
        Len(data_list) >= k_value

Dominant(rgb) ==
    IF rgb[1] > rgb[2] /\ rgb[1] > rgb[3] THEN "r"
    ELSE IF rgb[2] > rgb[1] /\ rgb[2] > rgb[3] THEN "g"
    ELSE IF rgb[3] > rgb[1] /\ rgb[3] > rgb[2] THEN "b"
    ELSE "none"

ColorReturned == t_pc = "returned" /\ t_in.kind = "color"

EnergyReturned == t_pc = "returned" /\ t_in.kind = "wave"

\* C4: for every colour of [0,255]^3 rgb_to_wavelength returns the value of
\* the dominant-channel rule (in 1/255 nm: 620*255 + 130 r, 495*255 + 125 g,
\* 380*255 + 115 b, else 550*255), within [380, 750] nm, and exactly 550 nm
\* when no channel is strictly greater than both others.
C4_WavelengthRule ==
    ColorReturned =>
        \A i \in 1..2 :
            LET rgb == t_in.rgb[i]
                w == t_out.data[i].wavelength
            IN  /\ Dominant(rgb) = "r" => w = 620 * 255 + 130 * rgb[1]
                /\ Dominant(rgb) = "g" => w = 495 * 255 + 125 * rgb[2]
                /\ Dominant(rgb) = "b" => w = 380 * 255 + 115 * rgb[3]
                /\ Dominant(rgb) = "none" => w = 550 * 255
                /\ 380 * 255 <= w
                /\ w <= 750 * 255

C4_Witness ==
    /\ ColorReturned
    /\ t_in.rgb[1] = <<120, 120, 120>>
    /\ t_in.rgb[2] = <<255, 255, 0>>
    /\ t_out.data[1].wavelength = 550 * 255
    /\ t_out.data[2].wavelength = 550 * 255

\* C5: calculate_photon_energy is strictly decreasing: for positive
\* wavelengths w1 < w2 both calls return, and the energy of w1 is greater.
C5_EnergyStrictlyDecreasing ==
    (EnergyReturned /\ 0 < t_in.wavelength[1]
                    /\ t_in.wavelength[1] < t_in.wavelength[2]) =>
        /\ t_out.a.error = "none"
        /\ t_out.b.error = "none"
        /\ t_out.a.value[2] > 0
        /\ t_out.b.value[2] > 0
        /\ RatCmp(t_out.a.value[1], t_out.a.value[2],
                  t_out.b.value[1], t_out.b.value[2]) = 1

C5_Witness ==
    /\ EnergyReturned
    /\ t_in.wavelength = << 500 * 255, 700 * 255 >>
    /\ t_out.a.error = "none"
    /\ RatCmp(t_out.a.value[1], t_out.a.value[2],
              t_out.b.value[1], t_out.b.value[2]) = 1

\* C6: the energy calculation fails with an error, returning no value, for
\* every wavelength <= 0, and returns a positive energy without error for
\* every wavelength > 0.
C6_DomainErrorIffNonPositive ==
    EnergyReturned =>
        \A i \in 1..2 :
            LET w == t_in.wavelength[i]
                o == IF i = 1 THEN t_out.a ELSE t_out.b
            IN  /\ w <= 0 => o.error # "none"
                /\ w > 0 => /\ o.error = "none"
                            /\ o.value[1] > 0
                            /\ o.value[2] > 0

\* view is base reordered by a permutation that leaves the keys
\* non-increasing and keeps base's order among equal keys.
StableDescending(view, base, key) ==
    /\ Len(view) = Len(base)
    /\ \E p \in Permutations(1..Len(base)) :
          /\ \A i \in 1..Len(base) : view[i] = base[p[i]]
          /\ \A i, j \in 1..Len(base) :
                i < j => /\ KeyGE(view[i][key], view[j][key])
                         /\ KeyGE(view[j][key], view[i][key]) => p[i] < p[j]

\* C7: the share-ordered view (sorted_data under "percent", and plot_bar's
\* zipped) and the energy-ordered view (sorted_data under "energy") are
\* permutations of the base records with non-increasing key in which
\* records of equal key keep their base order.
C7_SortedViews ==
    pc = "done" =>
        /\ sort_option = "energy" =>
              StableDescending(sorted_data, data_list, "energy")
        /\ sort_option = "percent" =>
              StableDescending(sorted_data, data_list, "percent")
        /\ StableDescending(zipped, Zip(hist, centers), 1)

C7_Witness ==
    /\ pc = "done"
    /\ sort_option = "energy"
    /\ sorted_data # data_list
    /\ \E i, j \in 1..Len(data_list) :
          /\ i < j
          /\ data_list[i].energy = data_list[j].energy
          /\ data_list[i] # data_list[j]
    /\ \E i, j \in 1..Len(hist) :
          /\ i < j
          /\ hist[i] = hist[j]
          /\ centers[i] # centers[j]

LowerHex ==
    { "0", "1", "2", "3", "4", "5", "6", "7", "8", "9",
      "a", "b", "c", "d", "e", "f" }

HexValue(c) ==
    CASE c = "0" -> 0 [] c = "1" -> 1 [] c = "2" -> 2 [] c = "3" -> 3
      [] c = "4" -> 4 [] c = "5" -> 5 [] c = "6" -> 6 [] c = "7" -> 7
      [] c = "8" -> 8 [] c = "9" -> 9 [] c = "a" -> 10 [] c = "b" -> 11
      [] c = "c" -> 12 [] c = "d" -> 13 [] c = "e" -> 14 [] c = "f" -> 15

\* C9: the hex code of a colour with channels in [0,255] is '#' followed by
\* six lowercase hexadecimal digits, two per channel in the order r, g, b
\* (so values below 16 get a leading zero); (10,200,5) gives '#0ac805'.
C9_HexCodeFormat ==
    ColorReturned =>
        \A i \in 1..2 :
            LET rgb == t_in.rgb[i]
                h == t_out.data[i].hex
            IN  /\ Len(h) = 7
                /\ h[1] = "#"
                /\ \A j \in 2..7 : h[j] \in LowerHex
                /\ \A ch \in 1..3 :
                      16 * HexValue(h[2 * ch]) + HexValue(h[2 * ch + 1])
                          = rgb[ch]
                /\ rgb = <<10, 200, 5>>
                      => h = << "#", "0", "a", "c", "8", "0", "5" >>

C9_Witness ==
    /\ ColorReturned
    /\ t_in.rgb[1] = <<10, 200, 5>>
    /\ t_out.data[1].hex = << "#", "0", "a", "c", "8", "0", "5" >>

BranchRank(rgb) ==
    CASE Dominant(rgb) = "b" -> 1
      [] Dominant(rgb) = "g" -> 2
      [] Dominant(rgb) = "r" -> 3
      [] OTHER -> 0

\* C10: a red-dominant colour has a strictly greater wavelength than a
\* green-dominant one, and a green-dominant a strictly greater one than a
\* blue-dominant one; in the energy-descending view of their two records
\* the blue one precedes the green one, which precedes the red one.
C10_BranchesOrdered ==
    ColorReturned =>
        \A i, j \in 1..2 :
            (BranchRank(t_in.rgb[j]) > 0
                /\ BranchRank(t_in.rgb[i]) > BranchRank(t_in.rgb[j])) =>
                /\ t_out.data[i].wavelength > t_out.data[j].wavelength
                /\ t_out.view = << t_out.data[j], t_out.data[i] >>

C10_Witness ==
    /\ ColorReturned
    /\ Dominant(t_in.rgb[1]) = "r"
    /\ t_in.rgb[2] = <<0, 255, 0>>
    /\ t_in.rgb[1][1] = 1
    /\ t_out.view = << t_out.data[2], t_out.data[1] >>

====
